---- MODULE Spec2Model ----
(***************************************************************************)
(* GitGPT conflict resolver: parse_conflict_file (src/main.py), the batch  *)
(* loop of handle_conflict_resolution (src/main.py) and resolve_conflict   *)
(* (src/executor.py).                                                      *)
(*                                                                         *)
(* Text.  A line is a record [txt, nl]: txt is the line's text without its *)
(* terminator, a sequence of atoms (an atom is a run of characters; the    *)
(* three marker tokens are atoms), nl is its terminator, "LF" (\n), "CRLF" *)
(* (\r\n) or "NONE" (the unterminated last line of a file).  A Python str  *)
(* and the content of a file are sequences of lines in which only the last *)
(* line may be unterminated; a list of str is a sequence of such           *)
(* sequences.  Indices held in program variables (start_line, end_line, i) *)
(* are zero-based as in the source; TLA+ sequences are one-based.          *)
(***************************************************************************)
EXTENDS Integers, Sequences, FiniteSets, TLC

VARIABLES
    pc,                \* position of the program
    disk,              \* content of the file at file_path, as stored
    conflicts,         \* list returned by parse_conflict_file
    files_left,        \* files of conflicted_files not yet visited
    idx,               \* enumerate index of the conflict being handled (from 1)
    resolution,        \* value returned by get_conflict_resolution
    choice,            \* answer of questionary.select
    content_to_apply,  \* resolve_conflict's content_to_apply
    lines,             \* resolve_conflict's lines (f.readlines())
    new_lines,         \* resolve_conflict's new_lines
    written,           \* number of elements of new_lines written so far
    result,            \* value returned by resolve_conflict
    total_conflicts,   \* handle_conflict_resolution's counter
    resolved_count,    \* handle_conflict_resolution's counter
    before,            \* history: content of the file when resolve_conflict was entered
    command_data,      \* confirm_and_execute's argument, the dict parsed from the AI's answer
    confirm,           \* confirm_and_execute's local
    spawned,           \* history: number of calls of subprocess.Popen that started a process
    console            \* what console.print and the prompt have shown, in order

vars == <<pc, disk, conflicts, files_left, idx, resolution, choice,
          content_to_apply, lines, new_lines, written, result,
          total_conflicts, resolved_count, before,
          command_data, confirm, spawned, console>>

\* the state of a call of confirm_and_execute
execVars == <<command_data, confirm, spawned, console>>

\* the state of the conflict resolution
resolveVars == <<disk, conflicts, files_left, idx, resolution, choice,
                 content_to_apply, lines, new_lines, written, result,
                 total_conflicts, resolved_count, before>>

-----------------------------------------------------------------------------
(* Bounds of the model *)

\* longest file, in lines, given to the scanner alone
MaxScanLen == 6
\* longest generated file, in lines, given to the batch loop
MaxLines == 2
\* longest run of plain lines around the region of the files with long context
MaxContext == 6
\* largest number of files in conflicted_files
MaxFiles == 2

-----------------------------------------------------------------------------
(* Marker tokens and text *)

OPEN == "<<<<<<<"
SEP == "======="
CLOSE == ">>>>>>>"

None == "None"
True == "True"
False == "False"

Min(a, b) == IF a < b THEN a ELSE b
Max(a, b) == IF a > b THEN a ELSE b

\* str.startswith(tok) for a marker token
StartsWith(line, tok) == Len(line.txt) > 0 /\ line.txt[1] = tok

\* str.endswith('\n')
EndsWithNewline(s) == Len(s) > 0 /\ s[Len(s)].nl # "NONE"

\* s1 + s2 on str: an unterminated last line of s1 runs into the first line of s2
Cat(s1, s2) ==
    IF s1 = <<>> THEN s2
    ELSE IF s2 = <<>> THEN s1
    ELSE IF s1[Len(s1)].nl = "NONE"
         THEN SubSeq(s1, 1, Len(s1) - 1)
              \o <<[txt |-> s1[Len(s1)].txt \o s2[1].txt, nl |-> s2[1].nl]>>
              \o SubSeq(s2, 2, Len(s2))
         ELSE s1 \o s2

\* ''.join(list of str)
RECURSIVE Join(_)
Join(strs) == IF strs = <<>> THEN <<>> ELSE Cat(Head(strs), Join(Tail(strs)))

\* a list of lines as a list of str, one str per line
AsStrs(ls) == [k \in 1..Len(ls) |-> <<ls[k]>>]

\* Python slice ls[a:b] for 0 <= a
Slice(ls, a, b) == SubSeq(ls, a + 1, Min(b, Len(ls)))

\* open(file_path, 'r').readlines(): universal newlines, \r\n is read as \n
readlines(d) ==
    [k \in 1..Len(d) |->
        [txt |-> d[k].txt, nl |-> IF d[k].nl = "NONE" THEN "NONE" ELSE "LF"]]

-----------------------------------------------------------------------------
(* parse_conflict_file *)

\* the inner while loops: first index j >= i with j >= len(lines) or lines[j] starting with tok
RECURSIVE ScanTo(_, _, _)
ScanTo(ls, i, tok) ==
    IF i < Len(ls) /\ ~StartsWith(ls[i + 1], tok) THEN ScanTo(ls, i + 1, tok) ELSE i

\* the conflict record, were the two sides taken for one another
ConflictAtSwapped(ls, i) ==
    LET sep == ScanTo(ls, i + 1, SEP)
        end == ScanTo(ls, sep + 1, CLOSE)
    IN  [start_line |-> i,
         end_line |-> end,
         current_content |-> Join(AsStrs(Slice(ls, sep + 1, end))),
         incoming_content |-> Join(AsStrs(Slice(ls, i + 1, sep))),
         context_before |-> Join(AsStrs(Slice(ls, Max(0, i - 5), i))),
         context_after |-> Join(AsStrs(Slice(ls, end + 1, Min(Len(ls), end + 6))))]

\* the conflict record, were the context one line longer on each side
ConflictAtWideContext(ls, i) ==
    LET sep == ScanTo(ls, i + 1, SEP)
        end == ScanTo(ls, sep + 1, CLOSE)
    IN  [start_line |-> i,
         end_line |-> end,
         current_content |-> Join(AsStrs(Slice(ls, i + 1, sep))),
         incoming_content |-> Join(AsStrs(Slice(ls, sep + 1, end))),
         context_before |-> Join(AsStrs(Slice(ls, Max(0, i - 6), i))),
         context_after |-> Join(AsStrs(Slice(ls, end + 1, Min(Len(ls), end + 7))))]

\* the conflict record appended for an opening marker at index i
ConflictAt(ls, i) ==
    LET sep == ScanTo(ls, i + 1, SEP)
        end == ScanTo(ls, sep + 1, CLOSE)
    IN  [start_line |-> i,
         end_line |-> end,
         current_content |-> Join(AsStrs(Slice(ls, i + 1, sep))),
         incoming_content |-> Join(AsStrs(Slice(ls, sep + 1, end))),
         context_before |-> Join(AsStrs(Slice(ls, Max(0, i - 5), i))),
         context_after |-> Join(AsStrs(Slice(ls, end + 1, Min(Len(ls), end + 6))))]

\* the outer loop, were a closing marker line taken for an opening one as well
RECURSIVE ParseFromEitherMarker(_, _)
ParseFromEitherMarker(ls, i) ==
    IF i >= Len(ls) THEN <<>>
    ELSE IF StartsWith(ls[i + 1], OPEN) \/ StartsWith(ls[i + 1], CLOSE)
         THEN <<ConflictAt(ls, i)>> \o ParseFromEitherMarker(ls, ConflictAt(ls, i).end_line + 1)
         ELSE ParseFromEitherMarker(ls, i + 1)

\* the outer while loop from index i on
RECURSIVE ParseFrom(_, _)
ParseFrom(ls, i) ==
    IF i >= Len(ls) THEN <<>>
    ELSE IF StartsWith(ls[i + 1], OPEN)
         THEN <<ConflictAt(ls, i)>> \o ParseFrom(ls, ConflictAt(ls, i).end_line + 1)
         ELSE ParseFrom(ls, i + 1)

parse_conflict_file(d) == ParseFrom(readlines(d), 0)

-----------------------------------------------------------------------------
(* Input files *)

OpenLine == <<OPEN, " HEAD">>
SepLine == <<SEP>>
CloseLine == <<CLOSE, " feature">>

\* texts of the lines of generated files: the three marker lines and two plain lines
LineTexts == {OpenLine, SepLine, CloseLine, <<"x">>, <<"y">>}

TextsUpTo(n) == UNION {[1..k -> LineTexts] : k \in 0..n}

\* the terminator of line k in a file of the given style: "LF", "CRLF", or
\* "MIXED", \r\n on odd lines and \n on even ones
Terminator(style, k) ==
    IF style = "LF" THEN "LF"
    ELSE IF style = "CRLF" THEN "CRLF"
    ELSE IF k % 2 = 1 THEN "CRLF" ELSE "LF"

\* the file with the given line texts, terminator style and last-line termination
File(texts, style, final_nl) ==
    [k \in 1..Len(texts) |->
        [txt |-> texts[k],
         nl |-> IF k = Len(texts) /\ ~final_nl THEN "NONE" ELSE Terminator(style, k)]]

\* the styles of the files given to the scanner alone, and to the batch loop
ScanStyles == {<<"LF", TRUE>>, <<"CRLF", FALSE>>, <<"MIXED", TRUE>>}
BatchStyles == {<<"LF", TRUE>>, <<"LF", FALSE>>, <<"CRLF", TRUE>>, <<"MIXED", FALSE>>}

\* files given to the scanner alone
ScanFiles == {File(t, s[1], s[2]) : t \in TextsUpTo(MaxScanLen), s \in ScanStyles}

\* one well-formed region: opening marker, local side, separator, incoming side, closing marker
Region(local, incoming) == <<OpenLine>> \o local \o <<SepLine>> \o incoming \o <<CloseLine>>

Gaps == {<<>>, <<<<"a">>>>}
Locals == {<<>>, <<<<"x">>>>}
Incomings == {<<<<"y">>>>}

OneRegionTexts == {g1 \o Region(l, i) \o g2 : g1 \in Gaps, l \in Locals, i \in Incomings, g2 \in Gaps}
TwoRegionTexts ==
    {Region(l1, i1) \o g \o Region(l2, i2) :
        l1 \in Locals, l2 \in Locals, i1 \in Incomings, i2 \in Incomings, g \in Gaps}

\* the scenario of the documentation: a, <<<<<<< HEAD, x, =======, y, >>>>>>> feature, b
ScenarioTexts == <<<<"a">>, OpenLine, <<"x">>, SepLine, <<"y">>, CloseLine, <<"b">>>>
Scenario == File(ScenarioTexts, "LF", TRUE)

\* n plain lines, a, b, a, ...
Run(n) == [k \in 1..n |-> <<IF k % 2 = 1 THEN "a" ELSE "b">>]

\* one region with long runs of plain lines before and after it
ContextTexts ==
    {Run(p) \o Region(<<<<"x">>>>, <<<<"y">>>>) \o Run(q) :
        p \in {MaxContext - 1, MaxContext}, q \in {MaxContext - 1, MaxContext}}

\* files that git may report as conflicted
BatchFiles ==
    {File(t, s[1], s[2]) : t \in TextsUpTo(MaxLines) \cup OneRegionTexts \cup TwoRegionTexts,
                           s \in BatchStyles}
    \cup {Scenario}
    \cup {File(t, "LF", TRUE) : t \in ContextTexts}

\* text the model can answer as merged_content: "", "m" and "m\n"
Empty == <<>>
TextM == <<[txt |-> <<"m">>, nl |-> "NONE"]>>
TextMNewline == <<[txt |-> <<"m">>, nl |-> "LF"]>>

\* get_conflict_resolution returns None: no suggestion, no merged_content
NoResolution == [suggestion |-> None, merged_content |-> <<>>]

\* values get_conflict_resolution can return besides None
Resolutions ==
    {[suggestion |-> "keep_both", merged_content |-> TextM],
     [suggestion |-> "custom", merged_content |-> TextMNewline],
     [suggestion |-> "custom", merged_content |-> Empty]}

\* the answers of questionary.select(...).ask(); ask() answers None when the
\* prompt is interrupted and it handles the interrupt itself
Accept == "Accept AI suggestion"
KeepYours == "Keep YOUR version"
KeepTheirs == "Keep THEIR version"
Skip == "Skip for now"
Cancel == "Cancel"
Choices == {Accept, KeepYours, KeepTheirs, Skip, Cancel, None}
KeyboardInterrupt == "KeyboardInterrupt"

NoFile == <<>>

-----------------------------------------------------------------------------
(* resolve_conflict: the pure steps *)

\* "if not merged_content"
MissingIgnored(value) == FALSE
Missing(value) == value = <<>>

\* content_to_apply, were the two sides joined when keep_both is accepted
ContentJoiningBoth(c, conflict, res) ==
    IF c = KeepYours THEN conflict.current_content
    ELSE IF c = KeepTheirs THEN conflict.incoming_content
    ELSE IF res.suggestion = "keep_both"
         THEN Cat(conflict.current_content, conflict.incoming_content)
    ELSE res.merged_content

\* content_to_apply as chosen from the answer
ContentFor(c, conflict, res) ==
    IF c = KeepYours THEN conflict.current_content
    ELSE IF c = KeepTheirs THEN conflict.incoming_content
    ELSE res.merged_content

\* "Ensure content ends with newline"
Normalize(content) ==
    IF content # <<>> /\ ~EndsWithNewline(content)
    THEN Cat(content, <<[txt |-> <<>>, nl |-> "LF"]>>)
    ELSE content

\* the splice, were the closing marker line kept: lines[end_line:]
SpliceFromEndLine(ls, conflict, content) ==
    AsStrs(Slice(ls, 0, conflict.start_line))
    \o <<content>>
    \o AsStrs(Slice(ls, conflict.end_line, Len(ls)))

\* lines[:start_line] + [content_to_apply] + lines[end_line + 1:]
Splice(ls, conflict, content) ==
    AsStrs(Slice(ls, 0, conflict.start_line))
    \o <<content>>
    \o AsStrs(Slice(ls, conflict.end_line + 1, Len(ls)))

\* what f.writelines writes: newline='' translates nothing
WriteChunk(d, chunk) == Cat(d, chunk)

-----------------------------------------------------------------------------
(* State machine *)

\* confirm_and_execute is not called
NoCall ==
    /\ command_data = <<>>
    /\ confirm = False
    /\ spawned = 0
    /\ console = <<>>

\* the locals of resolve_conflict and of the loop body, out of scope
Locals0 ==
    /\ resolution' = NoResolution
    /\ choice' = None
    /\ content_to_apply' = <<>>
    /\ lines' = <<>>
    /\ new_lines' = <<>>
    /\ written' = 0
    /\ result' = None
    /\ before' = NoFile

Init ==
    /\ pc = "loop"
    /\ files_left \in 1..MaxFiles
    /\ disk = NoFile
    /\ conflicts = <<>>
    /\ idx = 0
    /\ resolution = NoResolution
    /\ choice = None
    /\ content_to_apply = <<>>
    /\ lines = <<>>
    /\ new_lines = <<>>
    /\ written = 0
    /\ result = None
    /\ total_conflicts = 0
    /\ resolved_count = 0
    /\ before = NoFile
    /\ NoCall

\* for file_path in conflicted_files: conflicts = parse_conflict_file(file_path);
\* a file without conflicts is passed over
NextFile ==
    /\ pc = "loop"
    /\ files_left > 0
    /\ \E d \in BatchFiles :
        /\ disk' = d
        /\ conflicts' = parse_conflict_file(d)
    /\ files_left' = files_left - 1
    /\ IF conflicts' = <<>>
       THEN /\ pc' = "file_done"
            /\ idx' = 0
            /\ total_conflicts' = total_conflicts
       ELSE /\ pc' = "ask_ai"
            /\ idx' = 1
            /\ total_conflicts' = total_conflicts + Len(conflicts')
    /\ UNCHANGED <<resolution, choice, content_to_apply, lines, new_lines, written,
                   result, resolved_count, before>>
    /\ UNCHANGED execVars

\* the loop takes the next file_path: the file just handled is not looked at again
NextIteration ==
    /\ pc = "file_done"
    /\ pc' = "loop"
    /\ disk' = NoFile
    /\ conflicts' = <<>>
    /\ idx' = 0
    /\ UNCHANGED <<files_left, resolution, choice, content_to_apply, lines, new_lines,
                   written, result, total_conflicts, resolved_count, before>>
    /\ UNCHANGED execVars

\* the summary is printed
Summary ==
    /\ pc = "loop"
    /\ files_left = 0
    /\ pc' = "done"
    /\ UNCHANGED <<disk, conflicts, files_left, idx, resolution, choice, content_to_apply,
                   lines, new_lines, written, result, total_conflicts, resolved_count,
                   before>>
    /\ UNCHANGED execVars

\* the inner loop goes on to the next conflict of the list, or the list is exhausted
Advance ==
    /\ IF idx < Len(conflicts)
       THEN pc' = "ask_ai" /\ idx' = idx + 1
       ELSE pc' = "file_done" /\ idx' = idx
    /\ Locals0

\* resolution = get_conflict_resolution(conflict); without one the conflict is
\* skipped; otherwise resolve_conflict is entered, which returns False at once
\* when merged_content is missing
AskAI ==
    /\ pc = "ask_ai"
    /\ \/ /\ Advance
          /\ UNCHANGED <<disk, conflicts, files_left, total_conflicts, resolved_count>>
       \/ /\ \E r \in Resolutions : resolution' = r
          /\ before' = disk
          /\ IF Missing(resolution'.merged_content)
             THEN pc' = "returned" /\ result' = False
             ELSE pc' = "select" /\ result' = result
          /\ UNCHANGED <<disk, conflicts, files_left, idx, choice, content_to_apply, lines,
                         new_lines, written, total_conflicts, resolved_count>>
    /\ UNCHANGED execVars

\* questionary.select(...).ask() raises KeyboardInterrupt, or answers Cancel or Skip
Declined ==
    /\ pc = "select"
    /\ \E c \in {Cancel, Skip, KeyboardInterrupt} : choice' = c
    /\ pc' = "returned"
    /\ result' = False
    /\ UNCHANGED <<disk, conflicts, files_left, idx, resolution, content_to_apply, lines,
                   new_lines, written, total_conflicts, resolved_count, before>>
    /\ UNCHANGED execVars

\* any other answer: the content is chosen, the file is read, new_lines is built
Chosen ==
    /\ pc = "select"
    /\ \E c \in Choices \ {Cancel, Skip} : choice' = c
    /\ lines' = readlines(disk)
    /\ content_to_apply' = Normalize(ContentFor(choice', conflicts[idx], resolution))
    /\ new_lines' = Splice(lines', conflicts[idx], content_to_apply')
    /\ pc' = "write_open"
    /\ UNCHANGED <<disk, conflicts, files_left, idx, resolution, written, result,
                   total_conflicts, resolved_count, before>>
    /\ UNCHANGED execVars

\* open(file_path, 'r') or readlines raises: except Exception, return False
ReadError ==
    /\ pc = "select"
    /\ \E c \in Choices \ {Cancel, Skip} : choice' = c
    /\ content_to_apply' = ContentFor(choice', conflicts[idx], resolution)
    /\ pc' = "except"
    /\ UNCHANGED <<disk, conflicts, files_left, idx, resolution, lines, new_lines, written,
                   result, total_conflicts, resolved_count, before>>
    /\ UNCHANGED execVars

\* open(file_path, 'w') truncates the file
WriteOpen ==
    /\ pc = "write_open"
    /\ disk' = <<>>
    /\ written' = 0
    /\ pc' = "writing"
    /\ UNCHANGED <<conflicts, files_left, idx, resolution, choice, content_to_apply, lines,
                   new_lines, result, total_conflicts, resolved_count, before>>
    /\ UNCHANGED execVars

\* open(file_path, 'w') raises: except Exception, return False
OpenError ==
    /\ pc = "write_open"
    /\ pc' = "except"
    /\ UNCHANGED <<disk, conflicts, files_left, idx, resolution, choice, content_to_apply,
                   lines, new_lines, written, result, total_conflicts, resolved_count,
                   before>>
    /\ UNCHANGED execVars

\* f.writelines(new_lines), one element at a time
WriteLine ==
    /\ pc = "writing"
    /\ written < Len(new_lines)
    /\ disk' = WriteChunk(disk, new_lines[written + 1])
    /\ written' = written + 1
    /\ UNCHANGED <<pc, conflicts, files_left, idx, resolution, choice, content_to_apply,
                   lines, new_lines, result, total_conflicts, resolved_count, before>>
    /\ UNCHANGED execVars

\* the write raises (disk full, I/O error): what was written stays, except Exception
WriteError ==
    /\ pc = "writing"
    /\ pc' = "except"
    /\ UNCHANGED <<disk, conflicts, files_left, idx, resolution, choice, content_to_apply,
                   lines, new_lines, written, result, total_conflicts, resolved_count,
                   before>>
    /\ UNCHANGED execVars

\* the process is interrupted or killed while the file is open for writing
Killed ==
    /\ pc = "writing"
    /\ pc' = "killed"
    /\ UNCHANGED <<disk, conflicts, files_left, idx, resolution, choice, content_to_apply,
                   lines, new_lines, written, result, total_conflicts, resolved_count,
                   before>>
    /\ UNCHANGED execVars

\* everything is written and the file is closed: "Resolution applied"
WriteClose ==
    /\ pc = "writing"
    /\ written = Len(new_lines)
    /\ pc' = "applied"
    /\ UNCHANGED <<disk, conflicts, files_left, idx, resolution, choice, content_to_apply,
                   lines, new_lines, written, result, total_conflicts, resolved_count,
                   before>>
    /\ UNCHANGED execVars

\* return True
ReturnTrue ==
    /\ pc = "applied"
    /\ result' = True
    /\ pc' = "returned"
    /\ UNCHANGED <<disk, conflicts, files_left, idx, resolution, choice, content_to_apply,
                   lines, new_lines, written, total_conflicts, resolved_count, before>>
    /\ UNCHANGED execVars

\* "Error applying resolution", return False
ReturnFalse ==
    /\ pc = "except"
    /\ result' = False
    /\ pc' = "returned"
    /\ UNCHANGED <<disk, conflicts, files_left, idx, resolution, choice, content_to_apply,
                   lines, new_lines, written, total_conflicts, resolved_count, before>>
    /\ UNCHANGED execVars

\* if resolve_conflict(conflict, resolution): resolved_count += 1
Returned ==
    /\ pc = "returned"
    /\ resolved_count' = IF result = True THEN resolved_count + 1 ELSE resolved_count
    /\ Advance
    /\ UNCHANGED <<disk, conflicts, files_left, total_conflicts>>
    /\ UNCHANGED execVars

Next ==
    \/ NextFile
    \/ NextIteration
    \/ Summary
    \/ AskAI
    \/ Declined
    \/ Chosen
    \/ ReadError
    \/ WriteOpen
    \/ OpenError
    \/ WriteLine
    \/ WriteError
    \/ Killed
    \/ WriteClose
    \/ ReturnTrue
    \/ ReturnFalse
    \/ Returned

Spec == Init /\ [][Next]_vars

\* the runs in which no read and no write fails and the process is not killed
NextNoFault ==
    \/ NextFile
    \/ NextIteration
    \/ Summary
    \/ AskAI
    \/ Declined
    \/ Chosen
    \/ WriteOpen
    \/ WriteLine
    \/ WriteClose
    \/ ReturnTrue
    \/ Returned

SpecNoFault == Init /\ [][NextNoFault]_vars

-----------------------------------------------------------------------------
(* The scanner alone: parse_conflict_file applied to one file *)

InitScan ==
    /\ pc = "scan"
    /\ disk \in ScanFiles
    /\ files_left = 0
    /\ conflicts = <<>>
    /\ idx = 0
    /\ resolution = NoResolution
    /\ choice = None
    /\ content_to_apply = <<>>
    /\ lines = <<>>
    /\ new_lines = <<>>
    /\ written = 0
    /\ result = None
    /\ total_conflicts = 0
    /\ resolved_count = 0
    /\ before = NoFile
    /\ NoCall

Scan ==
    /\ pc = "scan"
    /\ conflicts' = parse_conflict_file(disk)
    /\ pc' = "scanned"
    /\ UNCHANGED <<disk, files_left, idx, resolution, choice, content_to_apply, lines,
                   new_lines, written, result, total_conflicts, resolved_count, before>>
    /\ UNCHANGED execVars

NextScan == Scan

SpecScan == InitScan /\ [][NextScan]_vars

-----------------------------------------------------------------------------
(* confirm_and_execute: the generated command is shown, confirmed and run *)

\* the dicts with the key k bound to one of vals, or without it
Opt(k, vals) == {<<>>} \cup {k :> v : v \in vals}

\* a str is the sequence of its words
GitStatus == <<"git", "status">>
GitAddCommit == <<"git", "add", ".", "&&", "git", "commit">>
DANGER == "DANGER:"

\* the dicts that get_git_command may return
CommandDatas ==
    {c @@ e @@ w @@ n @@ a :
        c \in Opt("command", {<<>>, GitStatus, GitAddCommit}),
        e \in Opt("explanation", {<<"shows", "the", "changes">>}),
        w \in Opt("ambiguity_warning", {<<DANGER, "history", "is", "rewritten">>,
                                        <<"two", "branches", "match">>}),
        n \in Opt("next_step_suggestion", {<<"commit", "the", "changes">>}),
        a \in Opt("auto_execute", {True, False})}

\* d.get(k, default)
Get(d, k, default) == IF k \in DOMAIN d THEN d[k] ELSE default

\* d.get(k) is a non-empty str
Given(d, k) == k \in DOMAIN d /\ d[k] # <<>>

\* command_data.get("auto_execute", False)
auto_execute(d) == Get(d, "auto_execute", False)

\* " && " in command
IsChained(command) == \E k \in 1..Len(command) : command[k] = "&&"

\* what is shown
NoCommandGenerated == "Error: No command was generated."
Question == "Do you want to execute this command?"
AutoExecuting == "Auto-executing command based on your affirmative response."
OperationCancelled == "Operation cancelled."
Executing == "Executing"
CommandSuccessful == "Command successful!"
FinishedWithExitCode == "Command finished with exit code"
ErrorDuringExecution == "An error occurred during execution"
ExecutionCancelled == "Execution cancelled."

\* the panel of the warning, when there is one
WarningPanel(d) ==
    IF ~Given(d, "ambiguity_warning") THEN <<>>
    ELSE IF d.ambiguity_warning[1] = DANGER THEN <<"DANGER WARNING">>
    ELSE <<"Warning">>

\* the panel of the command
CommandPanel(d) ==
    IF IsChained(d.command) THEN <<"Generated Chained Command">>
    ELSE <<"Generated Command">>

\* the panel of the explanation, when there is one
ExplanationPanel(d) ==
    IF Given(d, "explanation") THEN <<"Command Explanation">> ELSE <<>>

\* the panel of the next step, when there is one
NextStepPanel(d) ==
    IF Given(d, "next_step_suggestion") THEN <<"What's Next?">> ELSE <<>>

\* the exit codes of the command
ReturnCodes == {0, 1}

\* the answers of questionary.confirm(...).ask()
Answers == {True, False, None}

\* if confirm, were every answer but a refusal taken for a yes
ShouldExecuteUnlessRefused(c) == c # False

\* if confirm
ShouldExecute(c) == c = True

\* run_cli calls confirm_and_execute with the dict it got, when it got one
InitExec ==
    /\ pc = "called"
    /\ command_data \in {d \in CommandDatas : DOMAIN d # {}}
    /\ confirm = False
    /\ spawned = 0
    /\ console = <<>>
    /\ disk = NoFile
    /\ files_left = 0
    /\ conflicts = <<>>
    /\ idx = 0
    /\ resolution = NoResolution
    /\ choice = None
    /\ content_to_apply = <<>>
    /\ lines = <<>>
    /\ new_lines = <<>>
    /\ written = 0
    /\ result = None
    /\ total_conflicts = 0
    /\ resolved_count = 0
    /\ before = NoFile

\* if not command: the error is printed, return
NoCommand ==
    /\ pc = "called"
    /\ ~Given(command_data, "command")
    /\ console' = <<NoCommandGenerated>>
    /\ pc' = "exec_done"
    /\ UNCHANGED <<command_data, confirm, spawned>>
    /\ UNCHANGED resolveVars

\* the panels are shown; confirm = False; with auto_execute confirm = True,
\* otherwise the question is asked
Display ==
    /\ pc = "called"
    /\ Given(command_data, "command")
    /\ LET panels == WarningPanel(command_data) \o CommandPanel(command_data)
                     \o ExplanationPanel(command_data)
       IN  IF auto_execute(command_data) = True
           THEN /\ console' = Append(panels, AutoExecuting)
                /\ confirm' = True
                /\ pc' = "decide"
           ELSE /\ console' = Append(panels, Question)
                /\ confirm' = False
                /\ pc' = "prompt"
    /\ UNCHANGED <<command_data, spawned>>
    /\ UNCHANGED resolveVars

\* confirm = questionary.confirm(...).ask()
Answer ==
    /\ pc = "prompt"
    /\ \E a \in Answers : confirm' = a
    /\ pc' = "decide"
    /\ UNCHANGED <<command_data, spawned, console>>
    /\ UNCHANGED resolveVars

\* except KeyboardInterrupt: return
PromptInterrupt ==
    /\ pc = "prompt"
    /\ console' = Append(console, OperationCancelled)
    /\ pc' = "exec_done"
    /\ UNCHANGED <<command_data, confirm, spawned>>
    /\ UNCHANGED resolveVars

\* if confirm: subprocess.Popen(command, shell=True, ...) starts the process
Execute ==
    /\ pc = "decide"
    /\ ShouldExecute(confirm)
    /\ spawned' = spawned + 1
    /\ console' = Append(console, Executing)
    /\ pc' = "running"
    /\ UNCHANGED <<command_data, confirm>>
    /\ UNCHANGED resolveVars

\* if confirm: subprocess.Popen raises, no process is started, except Exception
PopenError ==
    /\ pc = "decide"
    /\ ShouldExecute(confirm)
    /\ console' = console \o <<Executing, ErrorDuringExecution>>
    /\ pc' = "exec_done"
    /\ UNCHANGED <<command_data, confirm, spawned>>
    /\ UNCHANGED resolveVars

\* else: Execution cancelled
Cancelled ==
    /\ pc = "decide"
    /\ ~ShouldExecute(confirm)
    /\ console' = Append(console, ExecutionCancelled)
    /\ pc' = "exec_done"
    /\ UNCHANGED <<command_data, confirm, spawned>>
    /\ UNCHANGED resolveVars

\* the output is read, return_code = process.wait(), the outcome is printed
Wait ==
    /\ pc = "running"
    /\ \E return_code \in ReturnCodes :
        console' = console \o (IF return_code = 0
                               THEN <<CommandSuccessful>> \o NextStepPanel(command_data)
                               ELSE <<FinishedWithExitCode>>)
    /\ pc' = "exec_done"
    /\ UNCHANGED <<command_data, confirm, spawned>>
    /\ UNCHANGED resolveVars

\* reading the output raises: except Exception
RunError ==
    /\ pc = "running"
    /\ console' = Append(console, ErrorDuringExecution)
    /\ pc' = "exec_done"
    /\ UNCHANGED <<command_data, confirm, spawned>>
    /\ UNCHANGED resolveVars

NextExec ==
    \/ NoCommand
    \/ Display
    \/ Answer
    \/ PromptInterrupt
    \/ Execute
    \/ PopenError
    \/ Cancelled
    \/ Wait
    \/ RunError

SpecExec == InitExec /\ [][NextExec]_vars

-----------------------------------------------------------------------------
(* Vocabulary of the properties *)

IsOpen(l) == StartsWith(l, OPEN)
IsSep(l) == StartsWith(l, SEP)
IsClose(l) == StartsWith(l, CLOSE)
IsPlain(l) == ~IsOpen(l) /\ ~IsSep(l) /\ ~IsClose(l)

\* zero-based indices, ascending, of the lines of ls from index i on that start with tok
RECURSIVE IndicesOf(_, _, _)
IndicesOf(ls, i, tok) ==
    IF i >= Len(ls) THEN <<>>
    ELSE (IF StartsWith(ls[i + 1], tok) THEN <<i>> ELSE <<>>) \o IndicesOf(ls, i + 1, tok)

\* ls from index i on is a sequence of plain lines and of regions, each an
\* opening line, plain lines, one separator line, plain lines, a closing line
RECURSIVE WellFormedFrom(_, _, _)
WellFormedFrom(ls, i, where) ==
    IF i >= Len(ls) THEN where = "outside"
    ELSE LET l == ls[i + 1] IN
         IF where = "outside"
         THEN IF IsOpen(l) THEN WellFormedFrom(ls, i + 1, "local")
              ELSE IsPlain(l) /\ WellFormedFrom(ls, i + 1, "outside")
         ELSE IF where = "local"
         THEN IF IsSep(l) THEN WellFormedFrom(ls, i + 1, "incoming")
              ELSE IsPlain(l) /\ WellFormedFrom(ls, i + 1, "local")
         ELSE IF IsClose(l) THEN WellFormedFrom(ls, i + 1, "outside")
              ELSE IsPlain(l) /\ WellFormedFrom(ls, i + 1, "incoming")

WellFormed(ls) == WellFormedFrom(ls, 0, "outside")

\* the lines of the file as the program reads them
Read == readlines(disk)

-----------------------------------------------------------------------------
(* Properties of the scanner, under SpecScan *)

C4_EndLineInFile ==
    pc = "scanned" => \A k \in 1..Len(conflicts) : conflicts[k].end_line < Len(Read)

\* C10: every region returned by the scan has start_line <= end_line, an
\* opening line at start_line, a closing line at end_line, exactly one
\* separator line and no opening line strictly between them; nested or
\* malformed marker sequences yield no region.
C10_RegionInvariant ==
    pc = "scanned" =>
        \A k \in 1..Len(conflicts) :
            LET s == conflicts[k].start_line
                e == conflicts[k].end_line
            IN  /\ s <= e
                /\ e < Len(Read)
                /\ IsOpen(Read[s + 1])
                /\ IsClose(Read[e + 1])
                /\ Cardinality({j \in (s + 1)..(e - 1) : IsSep(Read[j + 1])}) = 1
                /\ \A j \in (s + 1)..(e - 1) : ~IsOpen(Read[j + 1])

-----------------------------------------------------------------------------
(* Properties of resolve_conflict and of the batch loop, under Spec *)

\* the conflict passed to resolve_conflict
Conflict == conflicts[idx]

\* the list of conflicts is the scan of the file as it was when resolve_conflict was entered
Fresh == conflicts = parse_conflict_file(before)

\* the file is open for writing, or has been written
Writing == pc \in {"writing", "applied"}

\* s with its last line terminated
Terminated(s) ==
    [k \in 1..Len(s) |->
        [txt |-> s[k].txt,
         nl |-> IF k = Len(s) /\ s[k].nl = "NONE" THEN "LF" ELSE s[k].nl]]

\* C2: for a file with exactly one well-formed region, scanning and applying
\* "Keep YOUR version" yields the original lines before start_line, then the
\* region's local content, then the original lines after end_line, every
\* line outside the region identical to the original.
C2_KeepLocalRoundTrip ==
    (/\ pc = "applied"
     /\ choice = KeepYours
     /\ WellFormed(readlines(before))
     /\ Len(IndicesOf(readlines(before), 0, OPEN)) = 1) =>
        disk = SubSeq(before, 1, Conflict.start_line)
               \o Conflict.current_content
               \o SubSeq(before, Conflict.end_line + 2, Len(before))

\* C3: every region passed to the patch step has the start_line and end_line
\* that a scan of the file, as it is at that moment, returns (checked on the
\* runs without I/O failure, SpecNoFault).
C3_RegionFromCurrentScan ==
    pc = "write_open" =>
        \E k \in 1..Len(parse_conflict_file(disk)) :
            /\ parse_conflict_file(disk)[k].start_line = Conflict.start_line
            /\ parse_conflict_file(disk)[k].end_line = Conflict.end_line

C6_TerminatorsPreserved ==
    (pc = "applied" /\ Fresh /\ WellFormed(readlines(before))) =>
        /\ \A i \in 1..Conflict.start_line : disk[i].nl = before[i].nl
        /\ \A j \in (Conflict.end_line + 2)..Len(before) :
            disk[j - (Conflict.end_line + 1) + Conflict.start_line
                 + Len(content_to_apply)].nl = before[j].nl

\* C7 as stated: the replacement text written into the file is never empty,
\* whatever the choice (stated for the regions of the scan of a well-formed
\* file).
C7_ReplacementNeverEmpty ==
    (Writing /\ Fresh /\ WellFormed(readlines(before))) => content_to_apply # <<>>

\* C7 as amended: a resolution whose merged_content is empty is rejected
\* before any prompt and any write, and the file is unchanged; the text
\* written for the suggestion is never empty; an empty replacement is written
\* only for "Keep YOUR version" or "Keep THEIR version" of an empty side.
C7_EmptyMergedRejected ==
    /\ (resolution # NoResolution /\ resolution.merged_content = <<>>) =>
        (pc = "returned" /\ result = False /\ choice = None /\ disk = before)
    /\ (Writing /\ choice \in {Accept, None}) => content_to_apply # <<>>
    /\ (Writing /\ content_to_apply = <<>>) =>
        \/ choice = KeepYours /\ Conflict.current_content = <<>>
        \/ choice = KeepTheirs /\ Conflict.incoming_content = <<>>

\* a resolution without merged_content has been rejected
C7_Witness ==
    /\ pc = "returned"
    /\ resolution # NoResolution
    /\ resolution.merged_content = <<>>
    /\ result = False

C9_AllOrNothing ==
    (pc \in {"except", "killed"} /\ Fresh /\ WellFormed(readlines(before))) =>
        (disk = before \/ disk = Join(new_lines))

-----------------------------------------------------------------------------
(* Properties settled after the first ten *)

\* zero-based index of the first separator or closing line of ls, from index
\* i on, that no opening line before it accounts for; -1 when there is none
RECURSIVE StrayFrom(_, _, _)
StrayFrom(ls, i, where) ==
    IF i >= Len(ls) THEN -1
    ELSE LET l == ls[i + 1] IN
         IF where = "outside"
         THEN IF IsSep(l) \/ IsClose(l) THEN i
              ELSE StrayFrom(ls, i + 1, IF IsOpen(l) THEN "local" ELSE "outside")
         ELSE IF where = "local"
         THEN StrayFrom(ls, i + 1, IF IsSep(l) THEN "incoming" ELSE "local")
         ELSE StrayFrom(ls, i + 1, IF IsClose(l) THEN "outside" ELSE "incoming")

FirstStray(ls) == StrayFrom(ls, 0, "outside")

\* C11: a separator or closing line without a preceding unmatched opening
\* marker stops the scan of the file at that line: no region at or after it
\* is returned (stated for the files that are well-formed after that line;
\* under SpecScan).
C11_StrayMarkerStopsScan ==
    (/\ pc = "scanned"
     /\ FirstStray(Read) >= 0
     /\ WellFormedFrom(Read, FirstStray(Read) + 1, "outside")) =>
        \A k \in 1..Len(conflicts) : conflicts[k].end_line < FirstStray(Read)

\* no line of the file starts with the opening marker
NoOpeningLine(d) == \A k \in 1..Len(d) : ~IsOpen(readlines(d)[k])

\* C12: when the batch loop takes a file in which no line begins with the
\* opening marker, the region list is empty, the counters are unchanged and
\* the file is passed over; from there the loop only goes on to the next
\* file, so nothing is written to that file and no error is raised.
C12_NoOpeningPassedOver ==
    [][/\ (pc = "loop" /\ pc' \notin {"loop", "done"} /\ NoOpeningLine(disk')) =>
            /\ conflicts' = <<>>
            /\ pc' = "file_done"
            /\ idx' = 0
            /\ total_conflicts' = total_conflicts
            /\ resolved_count' = resolved_count
       /\ (pc = "file_done" /\ idx = 0) =>
            /\ NoOpeningLine(disk)
            /\ conflicts = <<>>
            /\ pc' = "loop"
            /\ total_conflicts' = total_conflicts
            /\ resolved_count' = resolved_count]_vars

\* a file with marker lines but no opening marker has been passed over
C12_Witness ==
    /\ pc = "file_done"
    /\ idx = 0
    /\ Len(disk) = 2
    /\ NoOpeningLine(disk)
    /\ IsSep(disk[1])

\* the number of lines of context kept on each side of a region
ContextWindow == 5

\* C13: for every region of a scan, context_before is the min(5, start_line)
\* lines just before the opening marker and context_after the min(5, lines
\* after end_line) lines just after the closing marker, at most 5 lines each;
\* the text written in place of a region is the merged content or one of the
\* two sides, never a context.
C13_ContextWindows ==
    /\ (pc = "ask_ai" /\ idx = 1) =>
        \A k \in 1..Len(conflicts) :
            LET s == conflicts[k].start_line
                e == conflicts[k].end_line
                nb == Min(ContextWindow, s)
                na == Min(ContextWindow, Max(0, Len(Read) - e - 1))
            IN  /\ conflicts[k].context_before = SubSeq(Read, s - nb + 1, s)
                /\ Len(conflicts[k].context_before) = nb
                /\ conflicts[k].context_after = SubSeq(Read, e + 2, e + 1 + na)
                /\ Len(conflicts[k].context_after) = na
    /\ pc \in {"write_open", "writing", "applied"} =>
        content_to_apply \in {Terminated(resolution.merged_content),
                              Terminated(Conflict.current_content),
                              Terminated(Conflict.incoming_content)}

\* a region with more than 5 lines before it and more than 5 after it has been replaced
C13_Witness ==
    /\ pc = "applied"
    /\ Fresh
    /\ Conflict.start_line > ContextWindow
    /\ Len(lines) - Conflict.end_line - 1 > ContextWindow
    /\ Len(Conflict.context_before) = ContextWindow
    /\ Len(Conflict.context_after) = ContextWindow

\* a call to resolve_conflict has gone past the prompt, or returned before it
InCall == pc \in {"write_open", "writing", "applied", "except", "returned"}

\* the prompt was interrupted: ask() gave no answer, or the interrupt was raised
Interrupted == ~Missing(resolution.merged_content) /\ choice \in {None, KeyboardInterrupt}

\* the call is on a path that applies nothing
NonApplying ==
    \/ Missing(resolution.merged_content)
    \/ choice \in {Skip, Cancel}
    \/ Interrupted

\* C14: on every non-applying path (no merged_content, "Skip for now",
\* "Cancel", prompt interrupted) resolve_conflict leaves the file as it was and
\* returns False (stated for the regions of the scan of a well-formed file); it
\* returns True only after the new content has been written;
\* resolved_count grows by one only on such a True return and never exceeds
\* total_conflicts.
C14_NonApplyingLeavesFile ==
    [][/\ (InCall /\ NonApplying /\ Fresh /\ WellFormed(readlines(before))) =>
            /\ disk = before
            /\ pc = "returned" => result = False
       /\ (result = True) =>
            /\ written = Len(new_lines)
            /\ disk = Join(new_lines)
       /\ resolved_count' <= total_conflicts'
       /\ (resolved_count' # resolved_count) =>
            /\ resolved_count' = resolved_count + 1
            /\ pc = "returned"
            /\ result = True
            /\ disk = Join(new_lines)]_vars

\* the confirmation question has been asked
Prompted == \E k \in 1..Len(console) : console[k] = Question

\* the confirmation prompt has been interrupted
PromptInterrupted == \E k \in 1..Len(console) : console[k] = OperationCancelled

\* C15: a process is spawned only if the command is non-empty and either
\* auto_execute is true or the confirmation prompt was answered yes; with an
\* empty or missing command, a negative or absent answer, or an interrupted
\* prompt no process is spawned; at most one process is spawned per call.
C15_SpawnOnlyWhenConfirmed ==
    /\ spawned <= 1
    /\ spawned > 0 =>
        /\ Given(command_data, "command")
        /\ \/ auto_execute(command_data) = True
           \/ Prompted /\ confirm = True
    /\ (\/ ~Given(command_data, "command")
        \/ auto_execute(command_data) # True /\ confirm # True
        \/ PromptInterrupted) => spawned = 0

\* the question was asked and answered yes, and the command has been run
C15_Witness ==
    /\ pc = "exec_done"
    /\ auto_execute(command_data) # True
    /\ Prompted
    /\ confirm = True
    /\ spawned = 1

====
